---- MODULE Spec2Model ----
(***************************************************************************)
(* The four VRGDA chart scripts of aminals-v3 as one state machine.        *)
(*                                                                         *)
(*   script = "plot"    src/analysis/python/plot_vrgda_curve.py            *)
(*   script = "simple"  src/script/python/plot_vrgda_curve_simple.py       *)
(*   script = "chart"   src/script/python/generate_vrgda_chart.py          *)
(*   script = "png"     src/script/python/generate_vrgda_png.py            *)
(*                                                                         *)
(* Numbers.  A Python float v is the integer v * Unit (fixed point, six    *)
(* decimals).  math.log10 and math.log are tables over the values the      *)
(* scripts pass to them, in units of 1/LogScale.  A float pixel coordinate *)
(* is an exact fraction kept as its numerator: columns over XDen, rows     *)
(* over Unit, zone-label centres over 2*XDen.  int() truncates.            *)
(***************************************************************************)
EXTENDS Integers, Sequences, FiniteSets, TLC

VARIABLES
    script,            \* which of the four scripts is being run
    csv,               \* vrgda_curve_data.csv: whether it can be opened, its data rows
    env,               \* what the environment answered so far (PIL, tools)
    pc,                \* position in the script
    run,               \* 1 = first run, 2 = second run on the same input
    opens,             \* open() calls on the input in this run
    rowi,              \* data rows consumed by the csv reader
    eth_amounts,       \* list built by the loader
    love_multipliers,  \* list built by the loader
    error,             \* the uncaught exception, "" if none
    render,            \* the in-memory render target (svg string, draw calls, pixels)
    ascii,             \* the character chart of the simple script
    console,           \* lines printed so far in this run
    converted,         \* generate_vrgda_png.py: the converted flag
    tried,             \* generate_vrgda_png.py: utilities invoked in this run
    fs,                \* the output files
    fs_start           \* the output files as this run found them

vars == <<script, csv, env, pc, run, opens, rowi, eth_amounts, love_multipliers,
          error, render, ascii, console, converted, tried, fs, fs_start>>

----------------------------------------------------------------------------
(* Bounds and resolution of the model *)

\* most data rows in the input file
MaxRows == 3

\* a zone label counts as placed at the geometric mean when twice its log10
\* is within LogTol / LogScale of the sum of the logs of the zone's ends: the
\* resolution of a label position of three digits (0.000316)
LogTol == 30

\* rows of an input file of the single png run
PngMaxRows == 2

----------------------------------------------------------------------------
(* Arithmetic helpers *)

Abs(n) == IF n < 0 THEN 0 - n ELSE n

\* 10^k
RECURSIVE Pow10(_)
Pow10(k) == IF k = 0 THEN 1 ELSE 10 * Pow10(k - 1)

\* decimals of a float that the model keeps
UnitDigits == 6

\* a float v is the integer v * Unit
Unit == Pow10(UnitDigits)

\* the log tables hold log(x) * LogScale, rounded
LogScale == Pow10(4)

\* float('inf'): above every difference the scripts compare it with
Inf == 2147483647

\* Python int(n/d) for d > 0: truncation toward zero
Trunc(n, d) == IF n >= 0 THEN n \div d ELSE 0 - ((0 - n) \div d)

\* floor of the square root, by bisection on [lo, hi)
RECURSIVE SqrtBetween(_, _, _)
SqrtBetween(n, lo, hi) ==
    IF hi - lo <= 1 THEN lo
    ELSE LET mid == (lo + hi) \div 2
         IN  IF mid * mid <= n THEN SqrtBetween(n, mid, hi)
                               ELSE SqrtBetween(n, lo, mid)

ISqrt(n) == SqrtBetween(n, 0, 46341)

----------------------------------------------------------------------------
(* float(): parsing one csv field.  A field is a tuple of characters. *)

DigitChars == <<"0", "1", "2", "3", "4", "5", "6", "7", "8", "9">>

IsDigit(c) == \E i \in 1..10 : DigitChars[i] = c

DigitVal(c) == (CHOOSE i \in 1..10 : DigitChars[i] = c) - 1

IsSpace(c) == c \in {" ", "\t", "\n", "\r"}

RECURSIVE LStrip(_)
LStrip(s) == IF s # <<>> /\ IsSpace(Head(s)) THEN LStrip(Tail(s)) ELSE s

RECURSIVE RStrip(_)
RStrip(s) ==
    IF s # <<>> /\ IsSpace(s[Len(s)]) THEN RStrip(SubSeq(s, 1, Len(s) - 1)) ELSE s

\* value of a digit string read as an integer
RECURSIVE DigitsVal(_)
DigitsVal(s) ==
    IF s = <<>> THEN 0 ELSE 10 * DigitsVal(SubSeq(s, 1, Len(s) - 1)) + DigitVal(s[Len(s)])

\* value of the digits after the point, in 1/Unit; digits past UnitDigits are dropped
FracVal(s) ==
    LET kept == IF Len(s) > UnitDigits THEN SubSeq(s, 1, UnitDigits) ELSE s
    IN  DigitsVal(kept) * Pow10(UnitDigits - Len(kept))

PointAt(s) == IF \E i \in 1..Len(s) : s[i] = "."
              THEN CHOOSE i \in 1..Len(s) : s[i] = "." /\ \A j \in 1..(i - 1) : s[j] # "."
              ELSE 0

\* a float() that reads a field it cannot parse as 0.0 instead of raising
ParseFloatLenient(field) ==
    IF \A i \in 1..Len(field) : IsDigit(field[i]) \/ field[i] = "."
    THEN [ok |-> TRUE, val |-> IF field = <<>> THEN 0
                               ELSE DigitsVal(IF PointAt(field) = 0 THEN field
                                              ELSE SubSeq(field, 1, PointAt(field) - 1)) * Unit
                                    + (IF PointAt(field) = 0 THEN 0
                                       ELSE FracVal(SubSeq(field, PointAt(field) + 1, Len(field))))]
    ELSE [ok |-> TRUE, val |-> 0]

\* float(field): [ok |-> FALSE] stands for ValueError.  Decimal literals only
\* (sign, digits, point, digits, surrounding white space); every field of the
\* model is one of these or has no numeric reading at all.
ParseFloat(field) ==
    LET s    == RStrip(LStrip(field))
        neg  == s # <<>> /\ Head(s) = "-"
        body == IF s # <<>> /\ Head(s) \in {"-", "+"} THEN Tail(s) ELSE s
        p    == PointAt(body)
        ip   == IF p = 0 THEN body ELSE SubSeq(body, 1, p - 1)
        fp   == IF p = 0 THEN <<>> ELSE SubSeq(body, p + 1, Len(body))
        good == /\ Len(ip) + Len(fp) >= 1
                /\ \A i \in 1..Len(ip) : IsDigit(ip[i])
                /\ \A i \in 1..Len(fp) : IsDigit(fp[i])
        mag  == DigitsVal(ip) * Unit + FracVal(fp)
    IN  IF good THEN [ok |-> TRUE, val |-> IF neg THEN 0 - mag ELSE mag]
                ELSE [ok |-> FALSE, val |-> 0]

----------------------------------------------------------------------------
(* The input file *)

\* the file is missing (or unreadable): open() raises
NoFile == [exists |-> FALSE, rows |-> <<>>]

CsvFile(rows) == [exists |-> TRUE, rows |-> rows]

Field_0_0001  == <<"0", ".", "0", "0", "0", "1">>
Field_0_00004 == <<"0", ".", "0", "0", "0", "0", "4">>
Field_99_5    == <<"9", "9", ".", "5">>
Field_100_5   == <<"1", "0", "0", ".", "5">>
Field_200     == <<"2", "0", "0">>
Field_1       == <<"1">>
Field_abc     == <<"a", "b", "c">>
Field_empty   == <<>>
Field_10      == <<"1", "0">>
Field_5       == <<"5">>
Field_4_8     == <<"4", ".", "8">>
Field_0       == <<"0">>
Field_12      == <<"1", "2">>

CsvRow(e, l) == [eth_amount |-> e, love_multiplier |-> l]

\* The data rows a file of the model is made of: the two ends of the x and y
\* ranges, two samples on either side of 100 ETH, one sample outside both
\* ranges, and two rows float() rejects.
RowChoices ==
    { CsvRow(Field_0_0001, Field_10),
      CsvRow(Field_99_5, Field_5),
      CsvRow(Field_100_5, Field_4_8),
      CsvRow(Field_200, Field_0),
      CsvRow(Field_0_00004, Field_12),
      CsvRow(Field_abc, Field_10),
      CsvRow(Field_1, Field_empty) }

RECURSIVE FilesOfLen(_)
FilesOfLen(n) ==
    IF n = 0 THEN { <<>> }
    ELSE { Append(f, r) : f \in FilesOfLen(n - 1), r \in RowChoices }

CsvFiles == {NoFile} \cup { CsvFile(f) : f \in UNION { FilesOfLen(n) : n \in 0..MaxRows } }

Scripts == {"plot", "simple", "chart", "png"}

----------------------------------------------------------------------------
(* Output files *)

OutputsOf(s) ==
    CASE s = "plot"   -> {"analysis/python/vrgda_curve_chart.png",
                          "analysis/python/vrgda_curve_chart.pdf"}
      [] s = "simple" -> {"script/python/vrgda_curve_summary.txt"}
      [] s = "chart"  -> {"script/output/vrgda_curve_chart.svg",
                          "script/output/vrgda_curve_chart.html"}
      [] s = "png"    -> {"script/output/vrgda_curve_chart.png",
                          "script/output/vrgda_curve_chart.ppm"}

OutputFiles == UNION { OutputsOf(s) : s \in Scripts }

Absent == <<>>

\* a write that opens the file for appending
WriteFileAppend(files, path, content) == [files EXCEPT ![path] = @ \o content]

\* open(path, 'w') ... write(content): the file holds exactly content afterwards
WriteFile(files, path, content) == [files EXCEPT ![path] = content]

\* os.remove(path)
RemoveFile(files, path) == [files EXCEPT ![path] = Absent]

\* one element of a render target, one printed line, one line of a file
Elem(tag, name, a, b) == [tag |-> tag, name |-> name, a |-> a, b |-> b]

NoEnv == [pil |-> "unknown", magick |-> "unknown", convert |-> "unknown",
          sips |-> "unknown", remove |-> "unknown"]

NoAscii == [closest |-> <<>>, rows |-> <<>>]

----------------------------------------------------------------------------
(* Chart geometry and the log-scale coordinate mapping *)

width == 800

height == 600

margin == 60

chart_width == width - 2 * margin

chart_height == height - 2 * margin

\* the literals 0.0001 and 200 of the axis range, in float units
XLo == Unit \div 10000

XHi == 200 * Unit

\* math.log10(v / Unit) * LogScale, rounded, for the values the scripts take
\* the logarithm of: the samples, the zone boundaries, the zone label positions
Log10(v) ==
    CASE v = 40        -> 0 - 43979
      [] v = 100       -> 0 - 40000
      [] v = 316       -> 0 - 35003
      [] v = 1000      -> 0 - 30000
      [] v = 10000     -> 0 - 20000
      [] v = 100000    -> 0 - 10000
      [] v = 316220    -> 0 - 5000
      [] v = 1000000   -> 0
      [] v = 5500000   -> 7404
      [] v = 10000000  -> 10000
      [] v = 55000000  -> 17404
      [] v = 99500000  -> 19978
      [] v = 100000000 -> 20000
      [] v = 100500000 -> 20022
      [] v = 140000000 -> 21461
      [] v = 200000000 -> 23010
      [] v = 2000000000 -> 33010

\* math.log(v / Unit) * LogScale, rounded, for the sample values
Ln(v) ==
    CASE v = 40        -> 0 - 101266
      [] v = 100       -> 0 - 92103
      [] v = 99500000  -> 46002
      [] v = 100500000 -> 46102
      [] v = 200000000 -> 52983

\* the denominator math.log10(200) - math.log10(0.0001) of every x mapping
XDen == Log10(XHi) - Log10(XLo)

\* an x mapping with the two logarithms of the numerator exchanged
ColNumFlipped(x) == margin * XDen + (Log10(XLo) - Log10(x)) * chart_width

\* margin + (log10(x) - log10(0.0001)) / (log10(200) - log10(0.0001)) * chart_width,
\* as a numerator over XDen
ColNum(x) == margin * XDen + (Log10(x) - Log10(XLo)) * chart_width

\* a y mapping that measures the multiplier from the top of the chart
RowNumFromTop(mult) == margin * Unit + mult * (chart_height \div 10)

\* margin + (10 - mult) * chart_height / 10, as a numerator over Unit
RowNum(mult) == margin * Unit + (10 * Unit - mult) * (chart_height \div 10)

\* the x and y of one sample in the SVG (floats)
SvgX(eth) == ColNum(eth)

SvgY(mult) == RowNum(mult)

\* the x and y of one sample in the PIL drawing (floats)
PilX(eth) == ColNum(eth)

PilY(mult) == RowNum(mult)

\* the x and y of one sample in the fallback pixel buffer: int(...)
RasterX(eth) == Trunc(ColNum(eth), XDen)

RasterY(mult) == Trunc(RowNum(mult), Unit)

\* a label centre computed from the start of the zone alone
ZoneCenterAtStart(start, end) ==
    margin * 2 * XDen + (2 * Log10(start) - 2 * Log10(XLo)) * chart_width

\* margin + ((log10(start) + log10(end)) / 2 - log10(0.0001)) / (...) * chart_width,
\* as a numerator over 2 * XDen
ZoneCenterNum(start, end) ==
    margin * 2 * XDen + (Log10(start) + Log10(end) - 2 * Log10(XLo)) * chart_width

----------------------------------------------------------------------------
(* Zone tables *)

\* a zone table whose Hungry zone ends at 0.01, short of the Fed zone
ChartZonesGap ==
    << <<Unit \div 10000, Unit \div 1000, "#FFE5E5", "Starving">>,
       <<Unit \div 1000, Unit \div 100, "#FFF0E5", "Hungry">>,
       <<Unit \div 10, Unit, "#E5F5E5", "Fed">>,
       <<Unit, 10 * Unit, "#E5E5FF", "Well-Fed">>,
       <<10 * Unit, 100 * Unit, "#F0E5FF", "Overfed">>,
       <<100 * Unit, 200 * Unit, "#FFE5E5", "Extreme">> >>

ChartZones ==
    << <<Unit \div 10000, Unit \div 1000, "#FFE5E5", "Starving">>,
       <<Unit \div 1000, Unit \div 10, "#FFF0E5", "Hungry">>,
       <<Unit \div 10, Unit, "#E5F5E5", "Fed">>,
       <<Unit, 10 * Unit, "#E5E5FF", "Well-Fed">>,
       <<10 * Unit, 100 * Unit, "#F0E5FF", "Overfed">>,
       <<100 * Unit, 200 * Unit, "#FFE5E5", "Extreme">> >>

PilZones ==
    << <<Unit \div 10000, Unit \div 1000, "(255, 229, 229)", "Starving">>,
       <<Unit \div 1000, Unit \div 10, "(255, 240, 229)", "Hungry">>,
       <<Unit \div 10, Unit, "(229, 245, 229)", "Fed">>,
       <<Unit, 10 * Unit, "(229, 229, 255)", "Well-Fed">>,
       <<10 * Unit, 100 * Unit, "(240, 229, 255)", "Overfed">>,
       <<100 * Unit, 200 * Unit, "(255, 229, 229)", "Extreme">> >>

RasterZones ==
    << <<Unit \div 10000, Unit \div 1000, "(255, 229, 229)">>,
       <<Unit \div 1000, Unit \div 10, "(255, 240, 229)">>,
       <<Unit \div 10, Unit, "(229, 245, 229)">>,
       <<Unit, 10 * Unit, "(229, 229, 255)">>,
       <<10 * Unit, 100 * Unit, "(240, 229, 255)">>,
       <<100 * Unit, 200 * Unit, "(255, 229, 229)">> >>

Max2(a, b) == IF a >= b THEN a ELSE b

Min2(a, b) == IF a <= b THEN a ELSE b

\* the x and the y a backend gives a sample: the SVG, PIL and fallback
\* mappings, or the data coordinates matplotlib is handed
BackendX(backend, eth) ==
    CASE backend = "svg"    -> SvgX(eth)
      [] backend = "pil"    -> PilX(eth)
      [] backend = "raster" -> RasterX(eth)
      [] OTHER              -> eth

BackendY(backend, mult) ==
    CASE backend = "svg"    -> SvgY(mult)
      [] backend = "pil"    -> PilY(mult)
      [] backend = "raster" -> RasterY(mult)
      [] OTHER              -> mult

\* one element per (eth, mult) of the zip, in order
SampleElems(tag, backend) ==
    [i \in 1..Min2(Len(eth_amounts), Len(love_multipliers)) |->
        Elem(tag, "", BackendX(backend, eth_amounts[i]),
                      BackendY(backend, love_multipliers[i]))]

----------------------------------------------------------------------------
(* generate_vrgda_chart.py: the SVG and the HTML page *)

\* the zone background rects: x1 and x2 of each zone
SvgZoneRects ==
    [i \in 1..Len(ChartZones) |->
        Elem("rect", ChartZones[i][3], ColNum(ChartZones[i][1]), ColNum(ChartZones[i][2]))]

\* the zone labels: x_center of each zone, over 2 * XDen
SvgZoneLabels ==
    [i \in 1..Len(ChartZones) |->
        Elem("text", ChartZones[i][4], ZoneCenterNum(ChartZones[i][1], ChartZones[i][2]), 0)]

\* the svg string: rects, polyline points, circles, zone labels (the grid,
\* the axis texts and the threshold lines are the same for every input)
SvgDocument ==
    SvgZoneRects \o SampleElems("point", "svg")
                 \o SampleElems("circle", "svg") \o SvgZoneLabels

BuildSvg ==
    /\ script = "chart"
    /\ pc = "loaded"
    /\ render' = SvgDocument
    /\ pc' = "built"
    /\ UNCHANGED <<script, csv, env, run, opens, rowi, eth_amounts, love_multipliers,
                   error, ascii, console, converted, tried, fs, fs_start>>

WriteSvg ==
    /\ script = "chart"
    /\ pc = "built"
    /\ fs' = WriteFile(fs, "script/output/vrgda_curve_chart.svg", render)
    /\ console' = Append(console, Elem("SVG chart saved to", "", 0, 0))
    /\ pc' = "svg_saved"
    /\ UNCHANGED <<script, csv, env, run, opens, rowi, eth_amounts, love_multipliers,
                   error, render, ascii, converted, tried, fs_start>>

WriteHtml ==
    /\ script = "chart"
    /\ pc = "svg_saved"
    /\ fs' = WriteFile(fs, "script/output/vrgda_curve_chart.html",
                       <<Elem("html", "", 0, 0)>> \o render \o <<Elem("table", "", 0, 0)>>)
    /\ console' = Append(console, Elem("HTML chart saved to", "", 0, 0))
    /\ pc' = "done"
    /\ UNCHANGED <<script, csv, env, run, opens, rowi, eth_amounts, love_multipliers,
                   error, render, ascii, converted, tried, fs_start>>

----------------------------------------------------------------------------
(* generate_vrgda_png.py with PIL *)

\* try: from PIL import ... except ImportError.  The environment answers once;
\* a second run in the same environment gets the same answer.
ImportPil ==
    /\ script = "png"
    /\ pc = "start"
    /\ \E has \in {"yes", "no"} :
          /\ env.pil \in {"unknown", has}
          /\ env' = [env EXCEPT !.pil = has]
    /\ pc' = "imported"
    /\ UNCHANGED <<script, csv, run, opens, rowi, eth_amounts, love_multipliers,
                   error, render, ascii, console, converted, tried, fs, fs_start>>

HAS_PIL == env.pil = "yes"

PilZoneRects ==
    [i \in 1..Len(PilZones) |->
        Elem("rectangle", PilZones[i][3], ColNum(PilZones[i][1]), ColNum(PilZones[i][2]))]

\* the zone labels; a label is drawn only if its centre is strictly inside the chart
PilZoneLabels ==
    LET center(i) == ZoneCenterNum(PilZones[i][1], PilZones[i][2])
        inside(i) == /\ center(i) > margin * 2 * XDen
                     /\ center(i) < (width - margin) * 2 * XDen
        F[i \in 0..Len(PilZones)] ==
            IF i = 0 THEN <<>>
            ELSE IF inside(i) THEN Append(F[i - 1], Elem("text", PilZones[i][4], center(i), 0))
                              ELSE F[i - 1]
    IN  F[Len(PilZones)]

\* draw.line / draw.ellipse take the points list; one "line" element per
\* segment start, one "ellipse" per point
PilDrawing ==
    LET pts == SampleElems("ellipse", "pil")
        segs == [i \in 1..(IF Len(pts) = 0 THEN 0 ELSE Len(pts) - 1) |->
                    Elem("line", "", pts[i].a, pts[i].b)]
    IN  PilZoneRects \o segs \o pts \o PilZoneLabels

DrawPil ==
    /\ script = "png"
    /\ pc = "loaded"
    /\ HAS_PIL
    /\ render' = PilDrawing
    /\ pc' = "drawn"
    /\ UNCHANGED <<script, csv, env, run, opens, rowi, eth_amounts, love_multipliers,
                   error, ascii, console, converted, tried, fs, fs_start>>

\* img.save(png_path, 'PNG', dpi=(300, 300))
SavePng ==
    /\ script = "png"
    /\ pc = "drawn"
    /\ fs' = WriteFile(fs, "script/output/vrgda_curve_chart.png",
                       <<Elem("png", "PIL", width, height)>> \o render)
    /\ console' = Append(console, Elem("PNG chart saved to", "", 0, 0))
    /\ pc' = "done"
    /\ UNCHANGED <<script, csv, env, run, opens, rowi, eth_amounts, love_multipliers,
                   error, render, ascii, converted, tried, fs_start>>

----------------------------------------------------------------------------
(* generate_vrgda_png.py without PIL: pixel buffer, PPM file, conversion *)

\* the zone fills: columns range(max(margin, x1), min(width - margin, x2))
RasterZoneFills ==
    [i \in 1..Len(RasterZones) |->
        Elem("fill", RasterZones[i][3],
             Max2(margin, Trunc(ColNum(RasterZones[i][1]), XDen)),
             Min2(width - margin, Trunc(ColNum(RasterZones[i][2]), XDen)))]

\* pixels[row][col] = ... inside range loops: the rows r1..r2 and the columns
\* c1..c2 a loop nest writes (nothing when a range is empty)
Box(r1, r2, c1, c2) == [r1 |-> r1, r2 |-> r2, c1 |-> c1, c2 |-> c2]

\* a single pixels[py][px] = ...
Pixel(py, px) == Box(py, py, px, px)

\* an index pair the list of lists has without wrapping or IndexError
InBuffer(b) ==
    /\ 0 <= b.r1 /\ b.r2 < height
    /\ 0 <= b.c1 /\ b.c2 < width

\* for y in range(margin, height - margin): for x in range(max(..), min(..))
ZoneFillWrites ==
    { Box(margin, height - margin - 1, RasterZoneFills[i].a, RasterZoneFills[i].b - 1) :
        i \in { k \in 1..Len(RasterZoneFills) : RasterZoneFills[k].a < RasterZoneFills[k].b } }

\* the four sides of the border
BorderWrites ==
    { Box(margin, margin, margin, width - margin - 1),
      Box(height - margin - 1, height - margin - 1, margin, width - margin - 1),
      Box(margin, height - margin - 1, margin, margin),
      Box(margin, height - margin - 1, width - margin - 1, width - margin - 1) }

\* the eleven dashed grid rows y = margin + i * chart_height // 10; of the
\* columns margin..width - margin - 1 those with x % 4 < 2 are written
GridWrites ==
    { Box(margin + (i * chart_height) \div 10, margin + (i * chart_height) \div 10,
          CHOOSE x \in margin..(margin + 3) : x % 4 < 2 /\ \A z \in margin..(x - 1) : z % 4 >= 2,
          CHOOSE x \in (width - margin - 4)..(width - margin - 1) :
              x % 4 < 2 /\ \A z \in (x + 1)..(width - margin - 1) : z % 4 >= 2) :
        i \in 0..10 }

\* the segment from the previous sample p to the sample q (each <<x, y>>):
\* steps + 1 interpolated pixels, each kept only inside the buffer and then
\* thickened by the pixel above and the pixel below where those rows exist
LineWrites(p, q) ==
    LET steps == Max2(Abs(q[1] - p[1]), Abs(q[2] - p[2]))
        px(j) == Trunc(p[1] * steps + (q[1] - p[1]) * j, steps)
        py(j) == Trunc(p[2] * steps + (q[2] - p[2]) * j, steps)
        kept  == IF steps > 0
                 THEN { j \in 0..steps : 0 <= py(j) /\ py(j) < height /\ 0 <= px(j) /\ px(j) < width }
                 ELSE {}
    IN  UNION { {Pixel(py(j), px(j))}
                \cup (IF py(j) > 0 THEN {Pixel(py(j) - 1, px(j))} ELSE {})
                \cup (IF py(j) < height - 1 THEN {Pixel(py(j) + 1, px(j))} ELSE {}) :
                j \in kept }

\* a sample disc drawn without looking at the buffer's edges
CircleWritesUnclipped(q) ==
    { Pixel(q[2] + dy, q[1] + dx) :
        <<dy, dx>> \in { d \in (-3..3) \X (-3..3) : d[2] * d[2] + d[1] * d[1] <= 9 } }

\* the disc of radius 3 around the sample q, each pixel kept only inside the buffer
CircleWrites(q) ==
    { Pixel(q[2] + dy, q[1] + dx) :
        <<dy, dx>> \in { d \in (-3..3) \X (-3..3) :
                           /\ d[2] * d[2] + d[1] * d[1] <= 9
                           /\ 0 <= q[2] + d[1] /\ q[2] + d[1] < height
                           /\ 0 <= q[1] + d[2] /\ q[1] + d[2] < width } }

\* the integer (x, y) of sample i
RasterPoint(i) == << RasterX(eth_amounts[i]), RasterY(love_multipliers[i]) >>

RasterSampleCount == Min2(Len(eth_amounts), Len(love_multipliers))

SegmentWrites == UNION { LineWrites(RasterPoint(i - 1), RasterPoint(i)) : i \in 2..RasterSampleCount }

DiscWrites == UNION { CircleWrites(RasterPoint(i)) : i \in 1..RasterSampleCount }

\* per drawing step: how many index ranges it writes, and how many of them
\* reach outside the buffer
WriteCounts(kind, writes) ==
    Elem("writes", kind, Cardinality(writes), Cardinality({ b \in writes : ~InBuffer(b) }))

RasterWrites ==
    << WriteCounts("fill", ZoneFillWrites),
       WriteCounts("border", BorderWrites),
       WriteCounts("grid", GridWrites),
       WriteCounts("line", SegmentWrites),
       WriteCounts("circle", DiscWrites) >>

\* the pixel buffer as what determines it: zone fills and the integer (x, y) of
\* every sample, from which the segments and the circles are drawn
RasterDrawing == RasterZoneFills \o SampleElems("sample", "raster")

\* the fallback drawing, the buffer taken as determined by RasterDrawing
Rasterize ==
    /\ script = "png"
    /\ pc = "loaded"
    /\ ~HAS_PIL
    /\ render' = RasterDrawing
    /\ console' = Append(console, Elem("PIL not available. Generating simple bitmap...", "", 0, 0))
    /\ pc' = "rasterized"
    /\ UNCHANGED <<script, csv, env, run, opens, rowi, eth_amounts, love_multipliers,
                   error, ascii, converted, tried, fs, fs_start>>

\* a write at a row >= height or a column >= width raises IndexError
RasterIndexError ==
    \E b \in ZoneFillWrites \cup BorderWrites \cup GridWrites \cup SegmentWrites \cup DiscWrites :
        b.r2 >= height \/ b.c2 >= width

\* the fallback drawing write by write: the buffer with the index ranges
\* every drawing step has written
RasterizePixels ==
    /\ script = "png"
    /\ pc = "loaded"
    /\ ~HAS_PIL
    /\ render' = RasterDrawing \o RasterWrites
    /\ console' = Append(console, Elem("PIL not available. Generating simple bitmap...", "", 0, 0))
    /\ IF RasterIndexError
       THEN error' = "IndexError" /\ pc' = "aborted"
       ELSE error' = error /\ pc' = "rasterized"
    /\ UNCHANGED <<script, csv, env, run, opens, rowi, eth_amounts, love_multipliers,
                   ascii, converted, tried, fs, fs_start>>

PpmPath == "script/output/vrgda_curve_chart.ppm"

PngPath == "script/output/vrgda_curve_chart.png"

\* with open(ppm_path, 'w') as f: header and pixels
WritePpm ==
    /\ script = "png"
    /\ pc = "rasterized"
    /\ fs' = WriteFile(fs, PpmPath, <<Elem("P3", "", width, height)>> \o render)
    /\ console' = Append(console, Elem("PPM file saved to", "", 0, 0))
    /\ converted' = FALSE
    /\ pc' = "ppm_saved"
    /\ UNCHANGED <<script, csv, env, run, opens, rowi, eth_amounts, love_multipliers,
                   error, render, ascii, tried, fs_start>>

ToolStates == {"absent", "ok", "fail"}

\* subprocess.run([tool, ppm_path, png_path], check=True) inside try/except: pass
RunTool(tool, status) ==
    /\ tried' = Append(tried, tool)
    /\ IF status = "ok"
       THEN /\ fs' = WriteFile(fs, PngPath, <<Elem("png", tool, 0, 0)>> \o fs[PpmPath])
            /\ converted' = TRUE
            /\ console' = Append(console, Elem("PNG chart saved to", tool, 0, 0))
       ELSE UNCHANGED <<fs, converted, console>>

\* if shutil.which('magick'): ... elif shutil.which('convert'): ...
\* The environment fixes, for each utility, whether it is installed and whether
\* its run succeeds; a second run in the same environment finds the same.
TryImageMagick ==
    /\ script = "png"
    /\ pc = "ppm_saved"
    /\ \E m \in ToolStates, c \in ToolStates, s \in ToolStates :
          /\ env.magick \in {"unknown", m}
          /\ env.convert \in {"unknown", c}
          /\ env.sips \in {"unknown", s}
          /\ env' = [env EXCEPT !.magick = m, !.convert = c, !.sips = s]
          /\ IF m # "absent" THEN RunTool("magick", m)
             ELSE IF c # "absent" THEN RunTool("convert", c)
             ELSE UNCHANGED <<tried, fs, converted, console>>
    /\ pc' = "magick_tried"
    /\ UNCHANGED <<script, csv, run, opens, rowi, eth_amounts, love_multipliers,
                   error, render, ascii, fs_start>>

\* if not converted and shutil.which('sips'): ...
TrySips ==
    /\ script = "png"
    /\ pc = "magick_tried"
    /\ IF ~converted /\ env.sips # "absent"
       THEN RunTool("sips", env.sips)
       ELSE UNCHANGED <<tried, fs, converted, console>>
    /\ pc' = "sips_tried"
    /\ UNCHANGED <<script, csv, env, run, opens, rowi, eth_amounts, love_multipliers,
                   error, render, ascii, fs_start>>

\* an ending that removes the PPM whether or not a PNG was made
FinishConversionAlwaysRemove ==
    /\ script = "png"
    /\ pc = "sips_tried"
    /\ \E r \in {"ok", "fail"} :
          /\ env.remove \in {"unknown", r}
          /\ env' = [env EXCEPT !.remove = r]
          /\ fs' = IF r = "ok" THEN RemoveFile(fs, PpmPath) ELSE fs
    /\ tried' = Append(tried, "remove")
    /\ pc' = "done"
    /\ UNCHANGED <<script, csv, run, opens, rowi, eth_amounts, love_multipliers,
                   error, render, ascii, converted, console, fs_start>>

\* if converted: try: os.remove(ppm_path) except: pass   else: print(note)
FinishConversion ==
    /\ script = "png"
    /\ pc = "sips_tried"
    /\ IF converted
       THEN /\ \E r \in {"ok", "fail"} :
                 /\ env.remove \in {"unknown", r}
                 /\ env' = [env EXCEPT !.remove = r]
                 /\ fs' = IF r = "ok" THEN RemoveFile(fs, PpmPath) ELSE fs
            /\ tried' = Append(tried, "remove")
            /\ UNCHANGED console
       ELSE /\ console' = Append(console, Elem("Note: Could not convert to PNG automatically. PPM file is available.", "", 0, 0))
            /\ UNCHANGED <<env, fs, tried>>
    /\ pc' = "done"
    /\ UNCHANGED <<script, csv, run, opens, rowi, eth_amounts, love_multipliers,
                   error, render, ascii, converted, fs_start>>

----------------------------------------------------------------------------
(* Summary statistics, shared shapes of the plot and simple scripts *)

\* Python min(list) on a non-empty list: the first smallest item
RECURSIVE MinFrom(_, _, _)
MinFrom(xs, i, m) ==
    IF i > Len(xs) THEN m
    ELSE MinFrom(xs, i + 1, IF xs[i] < m THEN xs[i] ELSE m)

\* a minimum that trusts the rows to be sorted
PyMinFirst(xs) == xs[1]

PyMin(xs) == MinFrom(xs, 2, xs[1])

\* Python max(list) on a non-empty list: the first largest item
RECURSIVE MaxFrom(_, _, _)
MaxFrom(xs, i, m) ==
    IF i > Len(xs) THEN m
    ELSE MaxFrom(xs, i + 1, IF xs[i] > m THEN xs[i] ELSE m)

PyMax(xs) == MaxFrom(xs, 2, xs[1])

\* f"{v:.<d>f}": v rounded to d decimals, ties to even; the result counts 10^-d
FormatFixed(v, d) ==
    LET s == Pow10(UnitDigits - d)
        n == Abs(v)
        q == n \div s
        r == n % s
        up == 2 * r > s \/ (2 * r = s /\ q % 2 = 1)
        m == IF up THEN q + 1 ELSE q
    IN  IF v < 0 THEN 0 - m ELSE m

\* for i, mult in enumerate(love_multipliers): if mult < t: print(...); break
\* The index (from 1) of the sample printed, 0 when the loop ends without a match.
RECURSIVE CrossingFrom(_, _)
CrossingFrom(t, i) ==
    IF i > Len(love_multipliers) THEN 0
    ELSE IF love_multipliers[i] < t THEN i
    ELSE CrossingFrom(t, i + 1)

\* a threshold scan that also matches a sample equal to the threshold
RECURSIVE CrossingFromLe(_, _)
CrossingFromLe(t, i) ==
    IF i > Len(love_multipliers) THEN 0
    ELSE IF love_multipliers[i] <= t THEN i
    ELSE CrossingFromLe(t, i + 1)

FirstAtOrBelow(t) == CrossingFromLe(t, 1)

FirstBelow(t) == CrossingFrom(t, 1)

CrossingLines(t, tag) ==
    IF FirstBelow(t) = 0 THEN <<>>
    ELSE <<Elem(tag, "", FormatFixed(eth_amounts[FirstBelow(t)], 1), 1)>>

----------------------------------------------------------------------------
(* plot_vrgda_curve.py: matplotlib *)

PlotZones ==
    << <<Unit \div 1000, "Starving", "#FFE5E5">>,
       <<Unit \div 10, "Hungry", "#FFF0E5">>,
       <<Unit, "Fed", "#E5F5E5">>,
       <<10 * Unit, "Well-Fed", "#E5E5FF">>,
       <<100 * Unit, "Overfed", "#F0E5FF">> >>

\* np.sqrt(a * b); a product too large for the model is taken of a / 10 and b / 10
RECURSIVE GeoMean(_, _)
GeoMean(a, b) ==
    IF a <= Inf \div b THEN ISqrt(a * b)
    ELSE 10 * GeoMean(a \div 10, b \div 10)

\* the label x of one zone
ZoneLabelX(prev_x, x) ==
    IF prev_x < Unit THEN GeoMean(prev_x, x)
    ELSE (prev_x + x) \div 2

\* the text y of the zone labels: 10.5
LabelY == 10 * Unit + Unit \div 2

\* prev_x = 0.0001; for x, label, color in zones: axvspan, text, prev_x = x
RECURSIVE PlotZoneLoop(_, _)
PlotZoneLoop(i, prev_x) ==
    IF i > Len(PlotZones) THEN <<>>
    ELSE LET x == PlotZones[i][1]
         IN  << Elem("axvspan", PlotZones[i][3], prev_x, x),
                Elem("text", PlotZones[i][2], ZoneLabelX(prev_x, x), LabelY) >>
             \o PlotZoneLoop(i + 1, x)

\* ax.axvspan(100, 200, ...); ax.text(140, 10.5, 'Extreme', ...)
PlotExtremeZone ==
    << Elem("axvspan", "#FFE5E5", 100 * Unit, 200 * Unit),
       Elem("text", "Extreme", 140 * Unit, LabelY) >>

key_points ==
    << <<Unit \div 1000, 10 * Unit, "10x">>,
       <<Unit \div 10, 7380000, "7.4x">>,
       <<Unit, 5460000, "5.5x">>,
       <<10 * Unit, 3480000, "3.5x">>,
       <<50 * Unit, 2340000, "2.3x">>,
       <<100 * Unit, Unit \div 10, "0.1x">> >>

\* for i, eth in enumerate(eth_amounts): if abs(eth - x) < min_diff: ...
RECURSIVE KeyPointScan(_, _, _, _)
KeyPointScan(x, i, min_diff, actual_y) ==
    IF i > Len(eth_amounts) THEN actual_y
    ELSE IF Abs(eth_amounts[i] - x) < min_diff
    THEN KeyPointScan(x, i + 1, Abs(eth_amounts[i] - x), love_multipliers[i])
    ELSE KeyPointScan(x, i + 1, min_diff, actual_y)

\* the y an annotation is attached to
ActualY(k) == KeyPointScan(key_points[k][1], 1, Inf, key_points[k][2])

PlotAnnotations ==
    [k \in 1..Len(key_points) |-> Elem("annotate", key_points[k][3], key_points[k][1], ActualY(k))]

\* what the figure holds: the curve in data coordinates, the zones and
\* their labels, the annotations (axis set-up, grid and axhlines do not
\* depend on the input)
PlotFigure ==
    SampleElems("plot", "data")
        \o PlotZoneLoop(1, XLo) \o PlotExtremeZone \o PlotAnnotations

Plot ==
    /\ script = "plot"
    /\ pc = "loaded"
    /\ render' = PlotFigure
    /\ pc' = "plotted"
    /\ UNCHANGED <<script, csv, env, run, opens, rowi, eth_amounts, love_multipliers,
                   error, ascii, console, converted, tried, fs, fs_start>>

\* plt.savefig(output_path, dpi=300, bbox_inches='tight')
SavePlotPng ==
    /\ script = "plot"
    /\ pc = "plotted"
    /\ fs' = WriteFile(fs, "analysis/python/vrgda_curve_chart.png",
                       <<Elem("png", "matplotlib", 0, 0)>> \o render)
    /\ console' = Append(console, Elem("Chart saved to", "", 0, 0))
    /\ pc' = "png_saved"
    /\ UNCHANGED <<script, csv, env, run, opens, rowi, eth_amounts, love_multipliers,
                   error, render, ascii, converted, tried, fs_start>>

\* plt.savefig(pdf_path, bbox_inches='tight')
SavePlotPdf ==
    /\ script = "plot"
    /\ pc = "png_saved"
    /\ fs' = WriteFile(fs, "analysis/python/vrgda_curve_chart.pdf",
                       <<Elem("pdf", "matplotlib", 0, 0)>> \o render)
    /\ console' = Append(console, Elem("PDF version saved to", "", 0, 0))
    /\ pc' = "pdf_saved"
    /\ UNCHANGED <<script, csv, env, run, opens, rowi, eth_amounts, love_multipliers,
                   error, render, ascii, converted, tried, fs_start>>

\* the four min/max lines and the two threshold scans
PlotSummaryLines ==
    << Elem("Minimum ETH", "", FormatFixed(PyMin(eth_amounts), 4), 4),
       Elem("Maximum ETH", "", FormatFixed(PyMax(eth_amounts), 0), 0),
       Elem("Maximum multiplier", "", FormatFixed(PyMax(love_multipliers), 1), 1),
       Elem("Minimum multiplier", "", FormatFixed(PyMin(love_multipliers), 1), 1) >>
    \o CrossingLines(5 * Unit, "Multiplier drops below 5x at")
    \o CrossingLines(Unit, "Multiplier drops below 1x at")

\* print summary statistics; min() of an empty list raises ValueError
PlotSummary ==
    /\ script = "plot"
    /\ pc = "pdf_saved"
    /\ IF eth_amounts = <<>>
       THEN /\ console' = Append(console, Elem("VRGDA Curve Summary:", "", 0, 0))
            /\ error' = "ValueError: min"
            /\ pc' = "aborted"
       ELSE /\ console' = Append(console, Elem("VRGDA Curve Summary:", "", 0, 0))
                            \o PlotSummaryLines
            /\ error' = error
            /\ pc' = "done"
    /\ UNCHANGED <<script, csv, env, run, opens, rowi, eth_amounts, love_multipliers,
                   render, ascii, converted, tried, fs, fs_start>>

----------------------------------------------------------------------------
(* plot_vrgda_curve_simple.py: the character chart and the summary file *)

ascii_height == 20

ascii_width == 70

\* math.log(2000000) * LogScale, rounded
Ln2000000 == 145087

\* ascii_width * math.log(eth_position) for a column:
\* eth_position = 0.0001 * math.pow(2000000, col / chart_width)
LnEthPosition(col) == ascii_width * Ln(XLo) + col * Ln2000000

\* ascii_width * abs(math.log(eth) - math.log(eth_position))
LnDiff(eth, col) == Abs(ascii_width * Ln(eth) - LnEthPosition(col))

\* for i, eth in enumerate(eth_amounts): if abs(...) < min_diff: ...; closest_idx = i
\* Indices count from 1 here; closest_idx = 0 in the code is index 1.
RECURSIVE ClosestScan(_, _, _, _)
ClosestScan(col, i, min_diff, closest_idx) ==
    IF i > Len(eth_amounts) THEN closest_idx
    ELSE IF LnDiff(eth_amounts[i], col) < min_diff
    THEN ClosestScan(col, i + 1, LnDiff(eth_amounts[i], col), i)
    ELSE ClosestScan(col, i + 1, min_diff, closest_idx)

\* a scan that also takes a sample at the same distance as the best so far
RECURSIVE ClosestScanLast(_, _, _, _)
ClosestScanLast(col, i, min_diff, closest_idx) ==
    IF i > Len(eth_amounts) THEN closest_idx
    ELSE IF LnDiff(eth_amounts[i], col) <= min_diff
    THEN ClosestScanLast(col, i + 1, LnDiff(eth_amounts[i], col), i)
    ELSE ClosestScanLast(col, i + 1, min_diff, closest_idx)

ClosestIdxLast(col) == ClosestScanLast(col, 1, Inf, 1)

ClosestIdx(col) == ClosestScan(col, 1, Inf, 1)

\* row_multiplier = 10 - (row * 0.5)
RowMultiplier(row) == 10 * Unit - row * (Unit \div 2)

\* the character printed for one cell
\* a glyph choice whose bands include their outer ends
GlyphInclusive(y, row) ==
    IF Abs(y - RowMultiplier(row)) <= Unit \div 4 THEN "full"
    ELSE IF Abs(y - RowMultiplier(row)) <= Unit \div 2 THEN "half"
    ELSE "blank"

Glyph(y, row) ==
    IF Abs(y - RowMultiplier(row)) < Unit \div 4 THEN "full"
    ELSE IF Abs(y - RowMultiplier(row)) < Unit \div 2 THEN "half"
    ELSE "blank"

AsciiChartOf ==
    LET closest == [c \in 1..ascii_width |-> ClosestIdx(c - 1)]
    IN  [closest |-> closest,
         rows |-> [r \in 1..ascii_height |->
                     [c \in 1..ascii_width |-> Glyph(love_multipliers[closest[c]], r - 1)]]]

\* the chart rows; love_multipliers[0] of an empty dataset raises IndexError
AsciiChart ==
    /\ script = "simple"
    /\ pc = "loaded"
    /\ console' = Append(console, Elem("AMINAL VRGDA LOVE CURVE", "", 0, 0))
    /\ IF love_multipliers = <<>>
       THEN /\ error' = "IndexError"
            /\ pc' = "aborted"
            /\ UNCHANGED ascii
       ELSE /\ ascii' = AsciiChartOf
            /\ error' = error
            /\ pc' = "charted"
    /\ UNCHANGED <<script, csv, env, run, opens, rowi, eth_amounts, love_multipliers,
                   render, converted, tried, fs, fs_start>>

\* the two range lines, printed and written to the summary file
RangeLines ==
    << Elem("Energy Range", "", FormatFixed(PyMin(eth_amounts), 4),
                                FormatFixed(PyMax(eth_amounts), 0)),
       Elem("Multiplier Range", "", FormatFixed(PyMin(love_multipliers), 1),
                                    FormatFixed(PyMax(love_multipliers), 1)) >>

key_thresholds ==
    << <<Unit \div 1000, "Starving">>,
       <<Unit \div 100, "Hungry">>,
       <<Unit \div 10, "Hungry">>,
       <<Unit, "Fed">>,
       <<10 * Unit, "Well-Fed">>,
       <<50 * Unit, "Overfed">>,
       <<100 * Unit, "Extremely Overfed">> >>

\* for i, eth in enumerate(eth_amounts): if abs(eth - eth_target) < 0.01 or
\* (eth_target >= 1 and abs(eth - eth_target) < eth_target * 0.1): ...; break
RECURSIVE ThresholdScan(_, _)
ThresholdScan(eth_target, i) ==
    IF i > Len(eth_amounts) THEN 0
    ELSE IF \/ Abs(eth_amounts[i] - eth_target) < Unit \div 100
            \/ /\ eth_target >= Unit
               /\ Abs(eth_amounts[i] - eth_target) < eth_target \div 10
    THEN love_multipliers[i]
    ELSE ThresholdScan(eth_target, i + 1)

ClosestMult(eth_target) == ThresholdScan(eth_target, 1)

KeyThresholdLines ==
    [k \in 1..Len(key_thresholds) |->
        Elem("threshold", key_thresholds[k][2], key_thresholds[k][1],
             FormatFixed(ClosestMult(key_thresholds[k][1]), 1))]

\* SUMMARY STATISTICS and KEY THRESHOLDS on the console
PrintSummary ==
    /\ script = "simple"
    /\ pc = "charted"
    /\ console' = console \o RangeLines \o KeyThresholdLines
    /\ pc' = "summarised"
    /\ UNCHANGED <<script, csv, env, run, opens, rowi, eth_amounts, love_multipliers,
                   error, render, ascii, converted, tried, fs, fs_start>>

\* with open('vrgda_curve_summary.txt', 'w') as f: ...
WriteSummaryFile ==
    /\ script = "simple"
    /\ pc = "summarised"
    /\ fs' = WriteFile(fs, "script/python/vrgda_curve_summary.txt",
                       <<Elem("AMINAL VRGDA CURVE SUMMARY", "", 0, 0)>> \o RangeLines
                           \o <<Elem("Key Points:", "", 0, 0)>>)
    /\ console' = Append(console, Elem("Summary saved to", "", 0, 0))
    /\ pc' = "done"
    /\ UNCHANGED <<script, csv, env, run, opens, rowi, eth_amounts, love_multipliers,
                   error, render, ascii, converted, tried, fs_start>>

----------------------------------------------------------------------------
(* The csv loader, the same code in all four scripts *)

Init ==
    /\ script \in Scripts
    /\ csv \in CsvFiles
    /\ env = NoEnv
    /\ pc = "start"
    /\ run = 1
    /\ opens = 0
    /\ rowi = 0
    /\ eth_amounts = <<>>
    /\ love_multipliers = <<>>
    /\ error = ""
    /\ render = <<>>
    /\ ascii = NoAscii
    /\ console = <<>>
    /\ converted = FALSE
    /\ tried = <<>>
    /\ fs = [p \in OutputFiles |-> Absent]
    /\ fs_start = [p \in OutputFiles |-> Absent]

\* with open(csv_path, 'r') as f: reader = csv.DictReader(f)
OpenCsv ==
    /\ pc = IF script = "png" THEN "imported" ELSE "start"
    /\ opens' = opens + 1
    /\ IF ~csv.exists
       THEN /\ error' = "FileNotFoundError"
            /\ pc' = "aborted"
       ELSE /\ error' = error
            /\ pc' = "reading"
    /\ UNCHANGED <<script, csv, env, run, rowi, eth_amounts, love_multipliers,
                   render, ascii, console, converted, tried, fs, fs_start>>

\* a loader that pushes each value at the front of its list
ListAppendFront(list, v) == <<v>> \o list

\* list.append(v)
ListAppend(list, v) == Append(list, v)

\* one turn of "for row in reader": two float() calls, two appends
ReadRow ==
    /\ pc = "reading"
    /\ rowi < Len(csv.rows)
    /\ LET row == csv.rows[rowi + 1]
           e   == ParseFloat(row.eth_amount)
           l   == ParseFloat(row.love_multiplier)
       IN  /\ rowi' = rowi + 1
           /\ IF ~e.ok
              THEN /\ error' = "ValueError: float"
                   /\ pc' = "aborted"
                   /\ UNCHANGED <<eth_amounts, love_multipliers>>
              ELSE IF ~l.ok
              THEN /\ error' = "ValueError: float"
                   /\ pc' = "aborted"
                   /\ eth_amounts' = ListAppend(eth_amounts, e.val)
                   /\ UNCHANGED love_multipliers
              ELSE /\ eth_amounts' = ListAppend(eth_amounts, e.val)
                   /\ love_multipliers' = ListAppend(love_multipliers, l.val)
                   /\ UNCHANGED <<error, pc>>
    /\ UNCHANGED <<script, csv, env, run, opens, render, ascii, console,
                   converted, tried, fs, fs_start>>

\* the reader is exhausted and the with block closes the file
CloseCsv ==
    /\ pc = "reading"
    /\ rowi = Len(csv.rows)
    /\ pc' = "loaded"
    /\ UNCHANGED <<script, csv, env, run, opens, rowi, eth_amounts, love_multipliers,
                   error, render, ascii, console, converted, tried, fs, fs_start>>

\* the user runs the same script again on the same input, in the same environment
RunAgain ==
    /\ pc \in {"done", "aborted"}
    /\ run = 1
    /\ run' = 2
    /\ pc' = "start"
    /\ opens' = 0
    /\ rowi' = 0
    /\ eth_amounts' = <<>>
    /\ love_multipliers' = <<>>
    /\ error' = ""
    /\ render' = <<>>
    /\ ascii' = NoAscii
    /\ console' = <<>>
    /\ converted' = FALSE
    /\ tried' = <<>>
    /\ fs_start' = fs
    /\ UNCHANGED <<script, csv, env, fs>>

Next ==
    \/ OpenCsv
    \/ ReadRow
    \/ CloseCsv
    \/ BuildSvg
    \/ WriteSvg
    \/ WriteHtml
    \/ ImportPil
    \/ DrawPil
    \/ SavePng
    \/ Rasterize
    \/ WritePpm
    \/ TryImageMagick
    \/ TrySips
    \/ FinishConversion
    \/ Plot
    \/ SavePlotPng
    \/ SavePlotPdf
    \/ PlotSummary
    \/ AsciiChart
    \/ PrintSummary
    \/ WriteSummaryFile
    \/ RunAgain

Spec == Init /\ [][Next]_vars

----------------------------------------------------------------------------
(* generate_vrgda_png.py run once, on rows that leave the chart on every
   side, its fallback drawing followed write by write *)

Field_2000 == <<"2", "0", "0", "0">>
Field_neg3 == <<"-", "3">>

\* a sample left of and above the chart, the two corners of the chart, and a
\* sample right of and below the image
PngRowChoices ==
    { CsvRow(Field_0_00004, Field_12),
      CsvRow(Field_0_0001, Field_10),
      CsvRow(Field_200, Field_0),
      CsvRow(Field_2000, Field_neg3) }

RECURSIVE PngFilesOfLen(_)
PngFilesOfLen(n) ==
    IF n = 0 THEN { <<>> }
    ELSE { Append(f, r) : f \in PngFilesOfLen(n - 1), r \in PngRowChoices }

PngCsvFiles == { CsvFile(f) : f \in UNION { PngFilesOfLen(n) : n \in 0..PngMaxRows } }

PngInit ==
    /\ script = "png"
    /\ csv \in PngCsvFiles
    /\ env = NoEnv
    /\ pc = "start"
    /\ run = 1
    /\ opens = 0
    /\ rowi = 0
    /\ eth_amounts = <<>>
    /\ love_multipliers = <<>>
    /\ error = ""
    /\ render = <<>>
    /\ ascii = NoAscii
    /\ console = <<>>
    /\ converted = FALSE
    /\ tried = <<>>
    /\ fs = [p \in OutputFiles |-> Absent]
    /\ fs_start = [p \in OutputFiles |-> Absent]

PngNext ==
    \/ ImportPil
    \/ OpenCsv
    \/ ReadRow
    \/ CloseCsv
    \/ DrawPil
    \/ SavePng
    \/ RasterizePixels
    \/ WritePpm
    \/ TryImageMagick
    \/ TrySips
    \/ FinishConversion

\* the interpreter keeps executing the script: once the PPM is written, each
\* step of the conversion chain that can be taken is taken
PngSpec ==
    /\ PngInit
    /\ [][PngNext]_vars
    /\ WF_vars(TryImageMagick)
    /\ WF_vars(TrySips)
    /\ WF_vars(FinishConversion)

----------------------------------------------------------------------------
(* Properties *)

\* the number each field of the model denotes, in float units; -1: not a number
FieldValue(field) ==
    CASE field = Field_0_0001  -> Unit \div 10000
      [] field = Field_0_00004 -> 4 * (Unit \div 100000)
      [] field = Field_99_5    -> 99 * Unit + Unit \div 2
      [] field = Field_100_5   -> 100 * Unit + Unit \div 2
      [] field = Field_200     -> 200 * Unit
      [] field = Field_1       -> Unit
      [] field = Field_10      -> 10 * Unit
      [] field = Field_5       -> 5 * Unit
      [] field = Field_4_8     -> 4 * Unit + 8 * (Unit \div 10)
      [] field = Field_0       -> 0
      [] field = Field_12      -> 12 * Unit
      [] OTHER                 -> 0 - 1

IsNumber(field) == FieldValue(field) >= 0

\* the loader has run to the end of the file without an exception
LoadSucceeded ==
    /\ pc \notin {"start", "imported", "reading"}
    /\ error \notin {"FileNotFoundError", "ValueError: float"}

\* C1: when loading succeeds on a file of n data rows, eth_amounts and
\* love_multipliers both have length n, and their i-th items are the numbers
\* of the eth_amount and love_multiplier fields of the i-th data row.
C1_LoaderPreservesRows ==
    LoadSucceeded =>
        /\ Len(eth_amounts) = Len(csv.rows)
        /\ Len(love_multipliers) = Len(csv.rows)
        /\ \A i \in 1..Len(csv.rows) :
              /\ eth_amounts[i] = FieldValue(csv.rows[i].eth_amount)
              /\ love_multipliers[i] = FieldValue(csv.rows[i].love_multiplier)

\* a file of three rows, the first two different, has been loaded
C1_Witness ==
    /\ pc = "loaded"
    /\ Len(csv.rows) = 3
    /\ Len(eth_amounts) = 3
    /\ eth_amounts[1] # eth_amounts[2]
    /\ love_multipliers[1] # love_multipliers[2]

\* the input cannot be loaded: no file, or a field that is not a number
BadInput ==
    \/ ~csv.exists
    \/ \E i \in 1..Len(csv.rows) :
          ~IsNumber(csv.rows[i].eth_amount) \/ ~IsNumber(csv.rows[i].love_multiplier)

\* the first row with a field that is not a number (only asked when there is one)
FirstBadRow ==
    CHOOSE i \in 1..Len(csv.rows) :
        /\ ~IsNumber(csv.rows[i].eth_amount) \/ ~IsNumber(csv.rows[i].love_multiplier)
        /\ \A j \in 1..(i - 1) :
              IsNumber(csv.rows[j].eth_amount) /\ IsNumber(csv.rows[j].love_multiplier)

\* C2: on an input that is missing or has a field that is not a number, the
\* run never gets past the loader: it opens the input at most once, reads no
\* row past the first bad one, ends only by aborting with FileNotFoundError or
\* float's ValueError, and its output files stay as the run found them.
C2_LoadFailureAbortsBeforeOutput ==
    BadInput =>
        /\ pc \in {"start", "imported", "reading", "aborted"}
        /\ opens <= 1
        /\ fs = fs_start
        /\ csv.exists => rowi <= FirstBadRow
        /\ pc = "aborted" =>
              /\ opens = 1
              /\ error = IF csv.exists THEN "ValueError: float" ELSE "FileNotFoundError"
              /\ csv.exists => rowi = FirstBadRow

\* a run aborted on a bad love_multiplier whose eth_amount had been appended
C2_Witness ==
    /\ pc = "aborted"
    /\ error = "ValueError: float"
    /\ Len(eth_amounts) = 2
    /\ Len(love_multipliers) = 1
    /\ fs = fs_start

ElemsTagged(seq, tag) == SelectSeq(seq, LAMBDA e : e.tag = tag)

InXRange(x) == XLo <= x /\ x <= XHi

InYRange(y) == 0 <= y /\ y <= 10 * Unit

\* the mapped samples of the three pixel backends, once drawn: SVG polyline
\* points, PIL points, pixel-buffer points; empty before that and elsewhere
SvgSamples == IF script = "chart" THEN ElemsTagged(render, "point") ELSE <<>>

PilSamples == IF script = "png" /\ HAS_PIL THEN ElemsTagged(render, "ellipse") ELSE <<>>

RasterSamples == IF script = "png" /\ ~HAS_PIL THEN ElemsTagged(render, "sample") ELSE <<>>

\* x1 < x2 in range gives column(x1) < column(x2)
StrictlyIncreasingX(samples) ==
    \A i \in 1..Len(samples), j \in 1..Len(samples) :
        (InXRange(eth_amounts[i]) /\ InXRange(eth_amounts[j]) /\ eth_amounts[i] < eth_amounts[j])
            => samples[i].a < samples[j].a

\* x1 < x2 in range gives column(x1) <= column(x2)
NonDecreasingX(samples) ==
    \A i \in 1..Len(samples), j \in 1..Len(samples) :
        (InXRange(eth_amounts[i]) /\ InXRange(eth_amounts[j]) /\ eth_amounts[i] < eth_amounts[j])
            => samples[i].a <= samples[j].a

\* C3 as claimed: in the SVG, in the PIL drawing and in the fallback pixel
\* buffer, samples with x1 < x2 in [0.0001, 200] get columns col1 < col2.
C3_StrictInEveryBackend ==
    /\ StrictlyIncreasingX(SvgSamples)
    /\ StrictlyIncreasingX(PilSamples)
    /\ StrictlyIncreasingX(RasterSamples)

\* C3 as amended: samples with x1 < x2 in [0.0001, 200] get columns col1 < col2
\* in the SVG and in the PIL drawing; in the fallback pixel buffer, where int()
\* truncates the column, they get col1 <= col2.
C3_StrictFloatMonotoneRaster ==
    /\ StrictlyIncreasingX(SvgSamples)
    /\ StrictlyIncreasingX(PilSamples)
    /\ NonDecreasingX(RasterSamples)

\* the pixel buffer holds two samples of different x in the same column
C3_Witness ==
    /\ script = "png"
    /\ pc = "rasterized"
    /\ \E i \in 1..Len(RasterSamples), j \in 1..Len(RasterSamples) :
          /\ InXRange(eth_amounts[i]) /\ InXRange(eth_amounts[j])
          /\ eth_amounts[i] < eth_amounts[j]
          /\ RasterSamples[i].a = RasterSamples[j].a

\* every in-range sample of a float backend lies in the chart rectangle, the
\* ends of both ranges lie on its sides, and a larger y is never lower
InsideChart(samples) ==
    \A i \in 1..Len(samples) :
        (InXRange(eth_amounts[i]) /\ InYRange(love_multipliers[i])) =>
            /\ margin * XDen <= samples[i].a
            /\ samples[i].a <= (margin + chart_width) * XDen
            /\ eth_amounts[i] = XLo => samples[i].a = margin * XDen
            /\ eth_amounts[i] = XHi => samples[i].a = (margin + chart_width) * XDen
            /\ margin * Unit <= samples[i].b
            /\ samples[i].b <= (margin + chart_height) * Unit
            /\ love_multipliers[i] = 10 * Unit => samples[i].b = margin * Unit
            /\ love_multipliers[i] = 0 => samples[i].b = (margin + chart_height) * Unit
            /\ \A j \in 1..Len(samples) :
                  love_multipliers[j] > love_multipliers[i] => samples[j].b <= samples[i].b

\* C4: in the SVG and in the PIL drawing every sample with x in [0.0001, 200]
\* and y in [0, 10] has its column in [margin, margin + chart_width], with
\* 0.0001 on margin and 200 on margin + chart_width, and its row in
\* [margin, margin + chart_height], with 10 on margin and 0 on
\* margin + chart_height; a larger y never has a larger row.
C4_SamplesInsideChart ==
    /\ InsideChart(SvgSamples)
    /\ InsideChart(PilSamples)

\* an SVG with a sample at (0.0001, 10), one at (200, 0) and one out of range
C4_Witness ==
    /\ script = "chart"
    /\ pc = "built"
    /\ Len(SvgSamples) = 3
    /\ \E i \in 1..3 : eth_amounts[i] = XLo /\ love_multipliers[i] = 10 * Unit
    /\ \E i \in 1..3 : eth_amounts[i] = XHi /\ love_multipliers[i] = 0
    /\ \E i \in 1..3 : ~InXRange(eth_amounts[i])

\* the first sample at the least distance d[i], among samples 1..Len(d)
FirstNearest(d) ==
    CHOOSE i \in 1..Len(d) :
        /\ \A j \in 1..Len(d) : d[i] <= d[j]
        /\ \A j \in 1..(i - 1) : d[j] > d[i]

\* C5: for a non-empty dataset, each matplotlib annotation takes the y of the
\* sample whose |x_i - target| is least, and each column of the character
\* chart takes the sample whose |ln x_i - ln eth_position| is least; among
\* samples at the same least distance it is the first of the dataset.
C5_NearestFirstWins ==
    /\ (script = "plot" /\ render # <<>> /\ eth_amounts # <<>>) =>
          LET notes == ElemsTagged(render, "annotate")
          IN  /\ Len(notes) = Len(key_points)
              /\ \A k \in 1..Len(key_points) :
                    LET d == [i \in 1..Len(eth_amounts) |->
                                    Abs(eth_amounts[i] - key_points[k][1])]
                    IN  notes[k].b = love_multipliers[FirstNearest(d)]
    /\ (script = "simple" /\ ascii.closest # <<>>) =>
          /\ Len(ascii.closest) = ascii_width
          /\ \A c \in 1..ascii_width :
                LET d == [i \in 1..Len(eth_amounts) |-> LnDiff(eth_amounts[i], c - 1)]
                IN  ascii.closest[c] = FirstNearest(d)

\* a plot annotated from two samples of different y at the same least
\* distance from a key point
C5_Witness ==
    /\ script = "plot"
    /\ pc = "plotted"
    /\ \E k \in 1..Len(key_points) :
       \E i \in 1..Len(eth_amounts), j \in 1..Len(eth_amounts) :
          /\ i < j
          /\ eth_amounts[i] # eth_amounts[j]
          /\ love_multipliers[i] # love_multipliers[j]
          /\ Abs(eth_amounts[i] - key_points[k][1]) = Abs(eth_amounts[j] - key_points[k][1])
          /\ \A m \in 1..Len(eth_amounts) :
                Abs(eth_amounts[m] - key_points[k][1]) >= Abs(eth_amounts[i] - key_points[k][1])

\* the first sample strictly below t (only asked when there is one)
LeastIndexBelow(t) ==
    CHOOSE i \in 1..Len(love_multipliers) :
        /\ love_multipliers[i] < t
        /\ \A j \in 1..(i - 1) : love_multipliers[j] >= t

\* the crossing lines of the summary for threshold t are as claimed
CrossingReported(t, tag) ==
    LET lines == ElemsTagged(console, tag)
    IN  IF \E i \in 1..Len(love_multipliers) : love_multipliers[i] < t
        THEN /\ Len(lines) = 1
             /\ lines[1].a = FormatFixed(eth_amounts[LeastIndexBelow(t)], 1)
        ELSE Len(lines) = 0

\* C6: for T = 5 and T = 1 the finished matplotlib summary holds one crossing
\* line, printing (to one decimal) the x of the first sample with y < T, when
\* some sample is strictly below T, and no crossing line for T otherwise.
C6_FirstCrossingReported ==
    (script = "plot" /\ pc = "done") =>
        /\ CrossingReported(5 * Unit, "Multiplier drops below 5x at")
        /\ CrossingReported(Unit, "Multiplier drops below 1x at")

\* a summary where a sample with y = 5 comes before the first sample below 5,
\* and a later sample is below 1
C6_Witness ==
    /\ script = "plot"
    /\ pc = "done"
    /\ Len(love_multipliers) = 3
    /\ love_multipliers[1] = 5 * Unit
    /\ love_multipliers[2] < 5 * Unit
    /\ love_multipliers[2] >= Unit
    /\ love_multipliers[3] < Unit
    /\ Len(ElemsTagged(console, "Multiplier drops below 5x at")) = 1
    /\ Len(ElemsTagged(console, "Multiplier drops below 1x at")) = 1

Range(xs) == { xs[i] : i \in 1..Len(xs) }

Least(xs) == CHOOSE v \in Range(xs) : \A w \in Range(xs) : v <= w

Greatest(xs) == CHOOSE v \in Range(xs) : \A w \in Range(xs) : v >= w

\* the summary lines of a finished run: console lines of the matplotlib script,
\* console lines and file lines of the simple script
ReportedLine(tag) ==
    IF script = "plot" THEN ElemsTagged(console, tag)[1]
    ELSE ElemsTagged(fs["script/python/vrgda_curve_summary.txt"], tag)[1]

SummaryDone == script \in {"plot", "simple"} /\ pc = "done"

\* C7 as claimed: the reported minimum and maximum of x and of y are exactly
\* the least and greatest items of eth_amounts and love_multipliers.
C7_ReportsExactExtremes ==
    SummaryDone =>
        IF script = "plot"
        THEN /\ ReportedLine("Minimum ETH").a * Pow10(UnitDigits - 4) = Least(eth_amounts)
             /\ ReportedLine("Maximum ETH").a * Pow10(UnitDigits) = Greatest(eth_amounts)
             /\ ReportedLine("Minimum multiplier").a * Pow10(UnitDigits - 1)
                    = Least(love_multipliers)
             /\ ReportedLine("Maximum multiplier").a * Pow10(UnitDigits - 1)
                    = Greatest(love_multipliers)
        ELSE /\ ReportedLine("Energy Range").a * Pow10(UnitDigits - 4) = Least(eth_amounts)
             /\ ReportedLine("Energy Range").b * Pow10(UnitDigits) = Greatest(eth_amounts)
             /\ ReportedLine("Multiplier Range").a * Pow10(UnitDigits - 1)
                    = Least(love_multipliers)
             /\ ReportedLine("Multiplier Range").b * Pow10(UnitDigits - 1)
                    = Greatest(love_multipliers)

\* C7 as amended: the reported minimum and maximum of x and of y are the
\* least and greatest items of eth_amounts and love_multipliers, whatever the
\* order of the rows, rounded to the printed precision: four decimals for the
\* minimum x, none for the maximum x, one for the two multipliers.
C7_ReportsRoundedExtremes ==
    SummaryDone =>
        IF script = "plot"
        THEN /\ ReportedLine("Minimum ETH").a = FormatFixed(Least(eth_amounts), 4)
             /\ ReportedLine("Maximum ETH").a = FormatFixed(Greatest(eth_amounts), 0)
             /\ ReportedLine("Minimum multiplier").a = FormatFixed(Least(love_multipliers), 1)
             /\ ReportedLine("Maximum multiplier").a = FormatFixed(Greatest(love_multipliers), 1)
        ELSE /\ ElemsTagged(console, "Energy Range")
                    = ElemsTagged(fs["script/python/vrgda_curve_summary.txt"], "Energy Range")
             /\ ElemsTagged(console, "Multiplier Range")
                    = ElemsTagged(fs["script/python/vrgda_curve_summary.txt"], "Multiplier Range")
             /\ ReportedLine("Energy Range").a = FormatFixed(Least(eth_amounts), 4)
             /\ ReportedLine("Energy Range").b = FormatFixed(Greatest(eth_amounts), 0)
             /\ ReportedLine("Multiplier Range").a = FormatFixed(Least(love_multipliers), 1)
             /\ ReportedLine("Multiplier Range").b = FormatFixed(Greatest(love_multipliers), 1)

\* a summary of rows that are not in ascending order of x, whose greatest x
\* (100.5) is printed as 100 and whose least x (0.00004) as 0.0000
C7_Witness ==
    /\ SummaryDone
    /\ Len(eth_amounts) = 3
    /\ eth_amounts[1] > eth_amounts[2]
    /\ Greatest(eth_amounts) = 100 * Unit + Unit \div 2
    /\ Least(eth_amounts) = 4 * (Unit \div 100000)
    /\ script = "plot"
    /\ ReportedLine("Maximum ETH").a = 100
    /\ ReportedLine("Minimum ETH").a = 0

\* C8: a second run of the SVG, PNG or summary script on the same input, in
\* the same environment (PIL, conversion utilities), leaves every output
\* file exactly as the first run left it: what a run writes replaces the
\* file and is determined by the input.
C8_SecondRunSameArtifacts ==
    (script \in {"chart", "png", "simple"} /\ run = 2 /\ pc \in {"done", "aborted"})
        => fs = fs_start

\* a second fallback run has converted its PPM again and removed it
C8_Witness ==
    /\ script = "png"
    /\ run = 2
    /\ pc = "done"
    /\ converted
    /\ Len(eth_amounts) >= 2
    /\ fs[PngPath] # Absent
    /\ fs[PpmPath] = Absent
    /\ fs = fs_start

\* the zone spans and zone labels a script has drawn, in drawing order
ZoneSpans ==
    CASE script = "plot"  -> ElemsTagged(render, "axvspan")
      [] script = "chart" -> ElemsTagged(render, "rect")
      [] script = "png"   -> IF HAS_PIL THEN ElemsTagged(render, "rectangle")
                                        ELSE ElemsTagged(render, "fill")
      [] OTHER            -> <<>>

ZoneTexts == ElemsTagged(render, "text")

ZonesDrawn == script \in {"plot", "chart", "png"} /\ render # <<>>

\* matplotlib (log axis in data coordinates): the label x is the geometric
\* mean of the span, to the resolution of the model
PlotLabelAtGeoMean(i) ==
    Abs(2 * Log10(ZoneTexts[i].a) - Log10(ZoneSpans[i].a) - Log10(ZoneSpans[i].b)) <= LogTol

\* SVG and PIL (mapped columns): the label centre is the middle of the zone's
\* rectangle, the column of the geometric mean
PixelLabelAtGeoMean(i) == ZoneTexts[i].a = ZoneSpans[i].a + ZoneSpans[i].b

\* C9 as claimed: in matplotlib, SVG and PIL each of the six zone labels is
\* at the geometric mean of its zone's ends.
C9_AllLabelsAtGeoMean ==
    (ZonesDrawn /\ (script = "png" => HAS_PIL)) =>
        /\ Len(ZoneTexts) = 6
        /\ Len(ZoneSpans) = 6
        /\ \A i \in 1..6 :
              IF script = "plot" THEN PlotLabelAtGeoMean(i) ELSE PixelLabelAtGeoMean(i)

\* C9 as amended: in SVG and PIL each of the six zone labels is at the
\* geometric mean of its zone's ends; in matplotlib the labels of the three
\* zones that start below 1 (Starving, Hungry, Fed) are, while Well-Fed and
\* Overfed are labelled at the arithmetic mean and Extreme at 140.
C9_LabelsAtGeoMeanBelowOne ==
    (ZonesDrawn /\ (script = "png" => HAS_PIL)) =>
        /\ Len(ZoneTexts) = 6
        /\ Len(ZoneSpans) = 6
        /\ \A i \in 1..6 :
              IF script # "plot" THEN PixelLabelAtGeoMean(i)
              ELSE IF ZoneSpans[i].a < Unit THEN PlotLabelAtGeoMean(i)
              ELSE IF i < 6 THEN 2 * ZoneTexts[i].a = ZoneSpans[i].a + ZoneSpans[i].b
              ELSE ZoneTexts[i].a = 140 * Unit

\* a matplotlib figure whose Fed label is at the geometric mean and whose
\* Well-Fed label is not
C9_Witness ==
    /\ script = "plot"
    /\ pc = "plotted"
    /\ ZoneTexts[3].name = "Fed"
    /\ PlotLabelAtGeoMean(3)
    /\ ZoneTexts[4].name = "Well-Fed"
    /\ ~PlotLabelAtGeoMean(4)

ZoneBoundaries ==
    << Unit \div 10000, Unit \div 1000, Unit \div 10, Unit, 10 * Unit, 100 * Unit, 200 * Unit >>

ZoneNames == << "Starving", "Hungry", "Fed", "Well-Fed", "Overfed", "Extreme" >>

\* where a backend draws the x of a zone boundary
BoundaryPos(x) ==
    CASE script = "plot"              -> x
      [] script = "png" /\ ~HAS_PIL   -> Trunc(ColNum(x), XDen)
      [] OTHER                        -> ColNum(x)

\* six spans from 0.0001 to 200, each ending where the next starts, on the
\* boundaries 0.0001, 0.001, 0.1, 1, 10, 100, 200
SpansPartition ==
    /\ Len(ZoneSpans) = 6
    /\ \A i \in 1..6 :
          /\ ZoneSpans[i].a = BoundaryPos(ZoneBoundaries[i])
          /\ ZoneSpans[i].b = BoundaryPos(ZoneBoundaries[i + 1])
          /\ ZoneSpans[i].a < ZoneSpans[i].b
    /\ \A i \in 1..5 : ZoneSpans[i].b = ZoneSpans[i + 1].a

NamesInOrder ==
    /\ Len(ZoneTexts) = 6
    /\ \A i \in 1..6 : ZoneTexts[i].name = ZoneNames[i]

\* C10 as claimed: matplotlib, SVG, PIL and the fallback raster each shade six
\* zones that partition [0.0001, 200) on the same boundaries, with the same
\* six names.
C10_SameZonesAndNamesEverywhere ==
    ZonesDrawn => (SpansPartition /\ NamesInOrder)

\* C10 as amended: matplotlib, SVG, PIL and the fallback raster each shade six
\* zones that partition [0.0001, 200) on the boundaries 0.0001, 0.001, 0.1, 1,
\* 10, 100, 200; the names Starving, Hungry, Fed, Well-Fed, Overfed, Extreme
\* are those of the matplotlib, SVG and PIL tables, the fallback-raster table
\* holding boundaries and colours only.
C10_SameZonesNamesWhereNamed ==
    ZonesDrawn =>
        /\ SpansPartition
        /\ IF script = "png" /\ ~HAS_PIL THEN ZoneTexts = <<>> ELSE NamesInOrder

\* a pixel buffer with its six zone fills and no zone name
C10_Witness ==
    /\ script = "png"
    /\ pc = "rasterized"
    /\ ~HAS_PIL
    /\ Len(ZoneSpans) = 6
    /\ ZoneSpans[1].a = margin
    /\ ZoneSpans[6].b = width - margin
    /\ ZoneTexts = <<>>

\* the fallback path of generate_vrgda_png.py, and what it did
Fallback == script = "png" /\ ~HAS_PIL /\ env.pil = "no"

Tried(tool) == \E i \in 1..Len(tried) : tried[i] = tool

Printed(tag) == \E i \in 1..Len(console) : console[i].tag = tag

CouldNotConvertNote == "Note: Could not convert to PNG automatically. PPM file is available."

InConversion == pc \in {"ppm_saved", "magick_tried", "sips_tried"}

\* what holds in every state of the conversion chain and at its end
ConversionNeverFatal ==
    /\ (Fallback /\ InConversion) =>
          /\ error = ""
          /\ fs[PpmPath] # Absent
          /\ ~Tried("remove")
          /\ ~Printed(CouldNotConvertNote)
    /\ (Fallback /\ pc = "done") =>
          /\ error = ""
          /\ (fs[PpmPath] # Absent /\ Printed(CouldNotConvertNote)) <=> ~converted
          /\ converted <=> fs[PngPath] # Absent
          /\ Tried("remove") => converted
          /\ (env.magick = "absent" /\ env.convert = "absent" /\ env.sips = "absent")
                => ~converted

\* C11: without PIL, whatever utilities are installed and whether their runs
\* succeed, the script goes from the written PPM to its normal end without an
\* exception; the PPM is left and the note is printed exactly when no
\* conversion succeeded, and the PPM is removed only after a success.
C11_ConversionNeverFatal ==
    /\ []ConversionNeverFatal
    /\ (Fallback /\ pc = "ppm_saved") ~> (pc = "done" /\ error = "")

\* a run that found magick and sips installed, saw both fail, and ended with
\* the PPM in place and the note
C11_Witness ==
    /\ Fallback
    /\ pc = "done"
    /\ env.magick = "fail"
    /\ env.sips = "fail"
    /\ tried = <<"magick", "sips">>
    /\ ~converted
    /\ fs[PpmPath] # Absent
    /\ Printed(CouldNotConvertNote)

\* the utilities the chain ran, in the order it ran them
ToolsTried == SelectSeq(tried, LAMBDA t : t # "remove")

\* ToolsTried runs down the priority order magick, convert, sips
InPriorityOrder ==
    LET rank(t) == CASE t = "magick" -> 1 [] t = "convert" -> 2 [] OTHER -> 3
    IN  \A i \in 1..Len(ToolsTried), j \in 1..Len(ToolsTried) :
            i < j => rank(ToolsTried[i]) < rank(ToolsTried[j])

\* C12: at the end of the fallback path, a utility was run iff it is
\* installed and no utility of higher priority succeeded, in the order magick,
\* convert, sips; so a PNG exists whenever some installed utility succeeds.
C12_EveryPresentToolTried ==
    (Fallback /\ pc = "done") =>
        /\ InPriorityOrder
        /\ Tried("magick") <=> env.magick # "absent"
        /\ Tried("convert") <=> (env.convert # "absent" /\ env.magick # "ok")
        /\ Tried("sips") <=> (env.sips # "absent" /\ env.magick # "ok" /\ env.convert # "ok")
        /\ (fs[PngPath] # Absent) <=> ("ok" \in {env.magick, env.convert, env.sips})

\* the ImageMagick run of the chain: magick when installed, else convert
ImageMagickOk ==
    IF env.magick # "absent" THEN env.magick = "ok" ELSE env.convert = "ok"

\* what the chain does: magick is run iff it is installed; convert is run iff
\* it is installed and magick is not installed (the elif: a magick that fails
\* does not fall through to convert); sips is run iff it is installed and the
\* ImageMagick run, if any, did not succeed; the runs are in the order magick,
\* convert, sips; a PNG exists iff the ImageMagick run or the sips run succeeded.
ConvertOnlyWithoutMagick ==
    (Fallback /\ pc = "done") =>
        /\ InPriorityOrder
        /\ Tried("magick") <=> env.magick # "absent"
        /\ Tried("convert") <=> (env.convert # "absent" /\ env.magick = "absent")
        /\ Tried("sips") <=> (env.sips # "absent" /\ ~ImageMagickOk)
        /\ (fs[PngPath] # Absent) <=> (ImageMagickOk \/ (~ImageMagickOk /\ env.sips = "ok"))

\* magick is installed and fails, convert is installed and would succeed, and
\* the run ends without a PNG, convert never run
MagickFailureSkipsConvert ==
    /\ Fallback
    /\ pc = "done"
    /\ env.magick = "fail"
    /\ env.convert = "ok"
    /\ env.sips = "fail"
    /\ tried = <<"magick", "sips">>
    /\ fs[PngPath] = Absent

\* the multiplier of the sample nearest in log(x) to column c (from 0), the
\* first one among equals
NearestMultiplier(c) ==
    love_multipliers[FirstNearest([i \in 1..Len(eth_amounts) |-> LnDiff(eth_amounts[i], c)])]

\* |y_n - row_multiplier| for row r and column c (both from 0), in 1/Unit
CellDistance(r, c) == Abs(NearestMultiplier(c) - (10 * Unit - r * (Unit \div 2)))

CellsOfColumn(c, glyphs) ==
    { r \in 0..19 : ascii.rows[r + 1][c + 1] \in glyphs }

\* C13: in the character chart the cell of row r in 0..19 and column c in
\* 0..69 is the full glyph iff the nearest sample's multiplier is less than
\* 0.25 from 10 - 0.5 r, the partial glyph iff it is at least 0.25 and less
\* than 0.5 from it, and blank otherwise; a column has at most one full glyph
\* and at most two cells that are not blank.
C13_GlyphBands ==
    (script = "simple" /\ ascii.rows # <<>>) =>
        /\ Len(ascii.rows) = 20
        /\ \A r \in 0..19 :
              /\ Len(ascii.rows[r + 1]) = 70
              /\ \A c \in 0..69 :
                    LET cell == ascii.rows[r + 1][c + 1]
                        d4   == 4 * CellDistance(r, c)
                    IN  /\ cell \in {"full", "half", "blank"}
                        /\ cell = "full" <=> d4 < Unit
                        /\ cell = "half" <=> (Unit <= d4 /\ d4 < 2 * Unit)
                        /\ cell = "blank" <=> d4 >= 2 * Unit
        /\ \A c \in 0..69 :
              /\ Cardinality(CellsOfColumn(c, {"full"})) <= 1
              /\ Cardinality(CellsOfColumn(c, {"full", "half"})) <= 2

\* a chart with a column holding a full glyph over a partial one (multiplier
\* 4.8 in rows 5.0 and 4.5), a column with a single full glyph (multiplier 10
\* in row 10) and a column left blank (multiplier 12)
C13_Witness ==
    /\ script = "simple"
    /\ pc = "charted"
    /\ \E c \in 0..69 : /\ ascii.rows[11][c + 1] = "full"
                        /\ ascii.rows[12][c + 1] = "half"
                        /\ CellsOfColumn(c, {"full", "half"}) = {10, 11}
    /\ \E c \in 0..69 : CellsOfColumn(c, {"full", "half"}) = {0}
    /\ \E c \in 0..69 : CellsOfColumn(c, {"full", "half"}) = {}

\* the rows of the key-thresholds table on the console
ThresholdRows == ElemsTagged(console, "threshold")

\* the multiplier of the sample nearest to target by |x_i - target|
NearestByX(target) ==
    love_multipliers[FirstNearest([i \in 1..Len(eth_amounts) |-> Abs(eth_amounts[i] - target)])]

\* C14: once the key-thresholds table is printed, the multiplier of each of
\* its seven rows (targets 0.001, 0.01, 0.1, 1, 10, 50, 100) is that of the
\* sample with the least |x_i - target|, printed to one decimal.
C14_ThresholdRowsNearest ==
    (script = "simple" /\ ThresholdRows # <<>>) =>
        /\ Len(ThresholdRows) = 7
        /\ \A k \in 1..7 :
              ThresholdRows[k].b = FormatFixed(NearestByX(ThresholdRows[k].a), 1)

\* the write counts of the pixel buffer, one per drawing step
BufferWrites == ElemsTagged(render, "writes")

\* C15: in the fallback rasterizer every write of the zone fill, the border,
\* the grid, the thickened segments and the sample discs has 0 <= row < height
\* and 0 <= column < width, whatever the samples, also when their x is outside
\* [0.0001, 200] or their y outside [0, 10]; pixels outside are skipped, none
\* wraps around and no IndexError is raised.
C15_WritesInsideBuffer ==
    (script = "png" /\ ~HAS_PIL /\ BufferWrites # <<>>) =>
        /\ Len(BufferWrites) = 5
        /\ \A k \in 1..5 : BufferWrites[k].b = 0
        /\ error # "IndexError"
        /\ pc # "aborted"

\* a buffer drawn from a sample left of and above the chart and a sample right
\* of and below the image: of the two discs (29 pixels each, disjoint) fewer
\* than 29 are written, and the segment between them is written only in part
C15_Witness ==
    /\ script = "png"
    /\ pc = "rasterized"
    /\ ~HAS_PIL
    /\ RasterSampleCount = 2
    /\ RasterPoint(1)[2] < 0
    /\ RasterPoint(2)[1] >= width
    /\ RasterPoint(2)[2] >= height
    /\ BufferWrites[5].name = "circle"
    /\ BufferWrites[5].a < 29
    /\ BufferWrites[4].name = "line"
    /\ BufferWrites[4].a > 0
    /\ \A k \in 1..5 : BufferWrites[k].b = 0

====
